---- MODULE Spec2Model ----
(***************************************************************************)
(* Model of react_agent.project_snapshot.ProjectSettings and of the schema *)
(* tools of react_agent.tools that call it.                                *)
(*                                                                         *)
(* Optional values (Python's X | None) are sequences of length 0 or 1:     *)
(* <<>> is None and <<v>> is the value v.                                  *)
(***************************************************************************)
EXTENDS Integers, Sequences, FiniteSets, TLC

VARIABLES
    fs,     \* the file system: path -> <<>> (no such file) or <<content>>
    mem,    \* instance -> <<>> (not constructed) or <<project_snapshot>>
    lock,   \* ProjectSettings._lock: 0 when free, else the holding thread
    pc,     \* thread -> position inside the operation it runs
    call,   \* thread -> the operation being run and its arguments
    ret,    \* thread -> outcome of the operation the thread is finishing
    nops,   \* number of operations started so far
    pre,    \* thread -> history: what the thread saw when it took the lock
    abs,    \* history: the constraint list of a caller-side sequential replay
    done,   \* thread -> number of operations the thread has finished
    out,    \* the last accessor or tool called, and the value it returned
    runs    \* the run records of the extended data model, in insertion order

vars == <<fs, mem, lock, pc, call, ret, nops, pre, abs, done, out, runs>>

-----------------------------------------------------------------------------
(* Bounds and input domains *)

NumThreads == 2
MaxOps == 2
PerThread == 2
MixedLen == 3

Threads == 1..NumThreads
Dirs == {"d1", "d2"}
Instances == {"A", "B", "C"}
CNames == {"c1", "c2"}

None == <<>>
Some(v) == <<v>>

\* ProjectSettings.directory of each instance
Directory(i) == IF i = "C" THEN "d2" ELSE "d1"

-----------------------------------------------------------------------------
(* Data model *)

DefaultSnapshotVersion == 1

Constraint(n, d, ty) ==
    [name |-> n, description |-> d, type |-> ty, rank |-> None,
     formula |-> "", where |-> ""]

UserAPISchemaDefinition(rq, rs) == [request_schema |-> rq, response_schema |-> rs]

\* request is a pathlib.Path object in memory
Scenario(n, d, p) ==
    [name |-> n, description |-> d,
     request |-> IF p = None THEN None ELSE Some([path |-> p[1]])]

ProjectSnapshot(t, d, cs, sd, ds) ==
    [optigen_snapshot_version |-> "0.0.3",
     snapshot_version |-> DefaultSnapshotVersion,
     title |-> t, description |-> d, constraints |-> cs,
     schema_definition |-> sd, dataset |-> ds]

DefaultSnapshot == ProjectSnapshot(None, None, <<>>, None, None)

ConstraintTypes == {"hard", "soft"}

-----------------------------------------------------------------------------
(* Sequence helpers *)

SeqNames(s) == {s[k].name : k \in 1..Len(s)}

AnyName(s, n) == \E k \in 1..Len(s) : s[k].name = n

\* a removal of the first entry named n alone
FilterOutFirst(s, n) ==
    IF AnyName(s, n)
    THEN LET k == CHOOSE j \in 1..Len(s) :
                     s[j].name = n /\ \A h \in 1..(j - 1) : s[h].name # n
         IN  SubSeq(s, 1, k - 1) \o SubSeq(s, k + 1, Len(s))
    ELSE s

RECURSIVE FilterOut(_, _)
\* [x for x in s if x.name != n]
FilterOut(s, n) ==
    IF s = <<>> THEN <<>>
    ELSE IF Head(s).name # n THEN <<Head(s)>> \o FilterOut(Tail(s), n)
    ELSE FilterOut(Tail(s), n)

\* index of the first entry named n, 0 when there is none
FirstIndex(s, n) ==
    IF AnyName(s, n)
    THEN CHOOSE k \in 1..Len(s) :
            s[k].name = n /\ \A j \in 1..(k - 1) : s[j].name # n
    ELSE 0

-----------------------------------------------------------------------------
(* Serialization: model_dump_json and model_validate_json *)

\* a dump that leaves the description of a scenario out
DumpScenarioNoDescription(s) ==
    [name |-> s.name, description |-> None,
     request |-> IF s.request = None THEN None ELSE Some(s.request[1].path)]

DumpScenario(s) ==
    [name |-> s.name, description |-> s.description,
     request |-> IF s.request = None THEN None ELSE Some(s.request[1].path)]

LoadScenario(j) ==
    [name |-> j.name, description |-> j.description,
     request |-> IF j.request = None THEN None ELSE Some([path |-> j.request[1]])]

DumpDataset(ds) ==
    IF ds = None THEN None
    ELSE Some([k \in 1..Len(ds[1]) |-> DumpScenario(ds[1][k])])

LoadDataset(j) ==
    IF j = None THEN None
    ELSE Some([k \in 1..Len(j[1]) |-> LoadScenario(j[1][k])])

\* the text written by model_dump_json(indent=2): a complete JSON document
ModelDumpJson(s) ==
    [doc |-> [optigen_snapshot_version |-> s.optigen_snapshot_version,
              snapshot_version |-> s.snapshot_version,
              title |-> s.title, description |-> s.description,
              constraints |-> s.constraints,
              schema_definition |-> s.schema_definition,
              dataset |-> DumpDataset(s.dataset)]]

\* a file holding an incomplete text (mkstemp's empty file, a cut write)
PartialText == [partial |-> TRUE]

IsDocument(text) == "doc" \in DOMAIN text

\* a validation that accepts every complete document
ValidatesAnyDocument(text) == IsDocument(text)

\* model_validate_json accepts the text
Validates(text) ==
    /\ IsDocument(text)
    /\ \A k \in 1..Len(text.doc.constraints) :
          text.doc.constraints[k].type \in ConstraintTypes

ModelValidateJson(text) ==
    [optigen_snapshot_version |-> text.doc.optigen_snapshot_version,
     snapshot_version |-> text.doc.snapshot_version,
     title |-> text.doc.title, description |-> text.doc.description,
     constraints |-> text.doc.constraints,
     schema_definition |-> text.doc.schema_definition,
     dataset |-> LoadDataset(text.doc.dataset)]

-----------------------------------------------------------------------------
(* Paths *)

\* a path is <<directory, file name, mkstemp suffix>>
TargetOf(d) == <<d, "optigen.json", 0>>

SettingsFile(i) == TargetOf(Directory(i))

\* the name mkstemp(dir, prefix=".optigen_", suffix=".tmp") gives thread t
TmpPath(i, t) == <<Directory(i), ".optigen_.tmp", t>>

Paths ==
    {TargetOf(d) : d \in Dirs} \cup {<<d, ".optigen_.tmp", t>> : d \in Dirs, t \in Threads}

-----------------------------------------------------------------------------
(* Operations and their arguments *)

\* keyword arguments: <<>> for a keyword not given, <<v>> for keyword = v
NoSnapshotKw == [title |-> None, description |-> None, schema_definition |-> None]

NoConstraintKw ==
    [name |-> None, description |-> None, type |-> None, rank |-> None,
     formula |-> None, where |-> None]

NoCall ==
    [op |-> "none", inst |-> "A", cons |-> Constraint("", "", "hard"), name |-> "",
     ckw |-> NoConstraintKw, ukw |-> NoSnapshotKw,
     scen |-> Scenario(None, None, None), tool |-> "", schema |-> "",
     loop |-> FALSE]

\* no accessor called yet; val is <<>> or <<the value returned>>
NoOut == [acc |-> "", inst |-> "A", name |-> "", val |-> <<>>]

NoPre == [file |-> None, mem |-> None, rfile |-> None, rmem |-> None]

\* a new ProjectSnapshot built from the keyword arguments alone
SnapshotFromKw(s, kw) ==
    [DefaultSnapshot EXCEPT
        !.title = IF kw.title = None THEN @ ELSE kw.title[1],
        !.description = IF kw.description = None THEN @ ELSE kw.description[1],
        !.schema_definition =
            IF kw.schema_definition = None THEN @ ELSE kw.schema_definition[1]]

\* BaseModel.model_copy(update=kwargs) on a ProjectSnapshot
SnapshotCopy(s, kw) ==
    [s EXCEPT !.title = IF kw.title = None THEN @ ELSE kw.title[1],
              !.description = IF kw.description = None THEN @ ELSE kw.description[1],
              !.schema_definition =
                  IF kw.schema_definition = None THEN @ ELSE kw.schema_definition[1]]

\* a new Constraint built from the keyword arguments alone, the fields not
\* given taking the values of an empty constraint
ConstraintCopyFresh(c, kw) ==
    [f \in DOMAIN c |-> IF kw[f] = None THEN NoCall.cons[f] ELSE kw[f][1]]

\* BaseModel.model_copy(update=kwargs) on a Constraint
ConstraintCopy(c, kw) ==
    [f \in DOMAIN c |-> IF kw[f] = None THEN c[f] ELSE kw[f][1]]

\* a test for None alone, taking the empty string for a name
NotNone(n) == n # None

\* Python truthiness of scenario.name (str | None)
Truthy(n) == n # None /\ n[1] # ""

-----------------------------------------------------------------------------
(* State after construction of the process: no file, no instance, lock free *)

Init ==
    /\ fs = [p \in Paths |-> None]
    /\ mem = [i \in Instances |-> None]
    /\ lock = 0
    /\ pc = [t \in Threads |-> "idle"]
    /\ call = [t \in Threads |-> NoCall]
    /\ ret = [t \in Threads |-> ""]
    /\ nops = 0
    /\ pre = [t \in Threads |-> NoPre]
    /\ abs = <<>>
    /\ done = [t \in Threads |-> 0]
    /\ out = NoOut
    /\ runs = <<>>

-----------------------------------------------------------------------------
(* ProjectSettings.__init__ *)

\* a constructor that prefers the supplied snapshot to the file
InitialSnapshotSuppliedFirst(i, supplied) ==
    IF supplied # None THEN supplied[1]
    ELSE IF fs[SettingsFile(i)] # None
    THEN ModelValidateJson(fs[SettingsFile(i)][1])
    ELSE DefaultSnapshot

\* the snapshot a new instance i holds, given the optional supplied snapshot
InitialSnapshot(i, supplied) ==
    IF fs[SettingsFile(i)] # None
    THEN ModelValidateJson(fs[SettingsFile(i)][1])
    ELSE IF supplied # None THEN supplied[1] ELSE DefaultSnapshot

\* a constructor that persists the initial snapshot when there is no file
FilesPersistedAtInit(i, supplied) ==
    IF fs[SettingsFile(i)] # None THEN fs
    ELSE [fs EXCEPT ![SettingsFile(i)] = Some(ModelDumpJson(InitialSnapshot(i, supplied)))]

\* the files after __init__: it reads the settings file and writes nothing
FilesAfterInit(i, supplied) == fs

\* Construction takes no lock. When the file exists but does not validate,
\* model_validate_json raises and no instance comes to exist.
Open(i, supplied) ==
    /\ mem[i] = None
    /\ fs[SettingsFile(i)] # None => Validates(fs[SettingsFile(i)][1])
    /\ mem' = [mem EXCEPT ![i] = Some(InitialSnapshot(i, supplied))]
    /\ fs' = FilesAfterInit(i, supplied)
    /\ UNCHANGED <<lock, pc, call, ret, nops, pre, abs, done, out, runs>>

-----------------------------------------------------------------------------
(* The lock *)

InSection(t) == pc[t] \in {"reload", "mutate", "mkstemp", "write", "replace", "release"}

\* no lock at all
LockFreeAlways(i) == TRUE

\* a lock made per instance in __init__
LockFreePerInstance(i) == \A t \in Threads : InSection(t) => call[t].inst # i

\* self._lock of instance i can be acquired: _lock is one class attribute,
\* shared by every instance, and acquire succeeds only on a free lock
LockFree(i) == lock = 0

\* "with self._lock:" entered by thread t for call c; a thread blocked on the
\* lock has touched no shared state yet, so the call starts here.
Enter(t, c, first) ==
    /\ LockFree(c.inst)
    /\ lock' = t
    /\ call' = [call EXCEPT ![t] = c]
    /\ pc' = [pc EXCEPT ![t] = first]
    /\ pre' = [pre EXCEPT ![t].file = fs[SettingsFile(c.inst)], ![t].mem = mem[c.inst]]
    /\ UNCHANGED <<fs, mem, ret, done, out, runs>>

\* 1 when the caller of the running operation is a loop that counts its calls
Counted(t) == IF call[t].loop THEN 1 ELSE 0

\* leaving the with block by return or by exception
Release(t) ==
    /\ pc[t] = "release"
    /\ lock' = 0
    /\ pc' = [pc EXCEPT ![t] = "idle"]
    /\ call' = [call EXCEPT ![t] = NoCall]
    /\ pre' = [pre EXCEPT ![t] = NoPre]
    /\ ret' = [ret EXCEPT ![t] = ""]
    /\ done' = [done EXCEPT ![t] = @ + Counted(t)]
    /\ UNCHANGED <<fs, mem, nops, abs, out, runs>>

Finish(t, r) ==
    /\ pc' = [pc EXCEPT ![t] = "release"]
    /\ ret' = [ret EXCEPT ![t] = r]

-----------------------------------------------------------------------------
(* _reload_from_disk *)

\* a reload that keeps the cached snapshot
KeepCached(i) == mem[i][1]

\* self.project_snapshot after _reload_from_disk, when the file validates
Reloaded(i) ==
    IF fs[SettingsFile(i)] # None
    THEN ModelValidateJson(fs[SettingsFile(i)][1])
    ELSE mem[i][1]

Reload(t) ==
    LET i == call[t].inst
        f == fs[SettingsFile(i)]
    IN  /\ pc[t] = "reload"
        /\ IF f # None /\ ~Validates(f[1])
           THEN /\ Finish(t, "ValidationError")
                /\ UNCHANGED mem
           ELSE /\ mem' = [mem EXCEPT ![i] = Some(Reloaded(i))]
                /\ pc' = [pc EXCEPT ![t] = "mutate"]
                /\ UNCHANGED ret
        /\ UNCHANGED <<fs, lock, call, nops, pre, abs, done, out, runs>>

-----------------------------------------------------------------------------
(* _persist_unlocked *)

\* writing the text straight to the settings file
WriteInPlace(i, t) == SettingsFile(i)

\* the path the text is written to before the rename
WritePath(i, t) == TmpPath(i, t)

\* os.replace(src, dst)
OsReplace(src, dst) ==
    IF src = dst THEN fs ELSE [fs EXCEPT ![dst] = fs[src], ![src] = None]

\* the value a writing operation returns
Returns(op) == IF op \in {"remove_constraint", "update_constraint", "remove_scenario"}
               THEN "True" ELSE "None"

\* tempfile.mkstemp creates the file, empty
MkStemp(t) ==
    /\ pc[t] = "mkstemp"
    /\ fs' = [fs EXCEPT ![WritePath(call[t].inst, t)] = Some(PartialText)]
    /\ pc' = [pc EXCEPT ![t] = "write"]
    /\ UNCHANGED <<mem, lock, call, ret, nops, pre, abs, done, out, runs>>

\* f.write(model_dump_json(indent=2)) and the close on leaving the with block
Write(t) ==
    /\ pc[t] = "write"
    /\ fs' = [fs EXCEPT ![WritePath(call[t].inst, t)] =
                            Some(ModelDumpJson(mem[call[t].inst][1]))]
    /\ pc' = [pc EXCEPT ![t] = "replace"]
    /\ UNCHANGED <<mem, lock, call, ret, nops, pre, abs, done, out, runs>>

Replace(t) ==
    /\ pc[t] = "replace"
    /\ fs' = OsReplace(WritePath(call[t].inst, t), SettingsFile(call[t].inst))
    /\ Finish(t, Returns(call[t].op))
    /\ UNCHANGED <<mem, lock, call, nops, pre, abs, done, out, runs>>

-----------------------------------------------------------------------------
(* The mutation each operation applies between reload and persist *)

Snap(t) == mem[call[t].inst][1]

SetSnap(t, s) == mem' = [mem EXCEPT ![call[t].inst] = Some(s)]

\* persisting by a call of persist_settings, which waits for the lock that
\* the caller holds
ToPersistSettings(t) == pc' = [pc EXCEPT ![t] = "waiting"] /\ UNCHANGED ret

\* self._persist_unlocked() called with the lock held
ToPersist(t) == pc' = [pc EXCEPT ![t] = "mkstemp"] /\ UNCHANGED ret

AtMutate(t, op) == pc[t] = "mutate" /\ call[t].op = op

\* ProjectSettings.update
DoUpdate(t) ==
    /\ AtMutate(t, "update")
    /\ SetSnap(t, SnapshotCopy(Snap(t), call[t].ukw))
    /\ ToPersist(t)
    /\ UNCHANGED <<fs, lock, call, nops, pre, abs, done, out, runs>>

\* a membership test on whole constraints, all fields compared
ConstraintExistsStructural(s, c) == \E k \in 1..Len(s.constraints) : s.constraints[k] = c

\* any(c.name == constraint.name for c in self.project_snapshot.constraints)
ConstraintExists(s, c) == AnyName(s.constraints, c.name)

\* an add that puts the new entry first
PrependEntry(list, e) == <<e>> \o list

\* list.append(e)
AppendEntry(list, e) == Append(list, e)

\* ProjectSettings.add_constraint
DoAddConstraint(t) ==
    /\ AtMutate(t, "add_constraint")
    /\ IF ConstraintExists(Snap(t), call[t].cons)
       THEN Finish(t, "ValueError") /\ UNCHANGED mem
       ELSE /\ SetSnap(t, [Snap(t) EXCEPT !.constraints = AppendEntry(@, call[t].cons)])
            /\ ToPersist(t)
    /\ UNCHANGED <<fs, lock, call, nops, pre, abs, done, out, runs>>

\* a removal that always reports an entry removed
RemovedAlways(kept, original) == TRUE

\* removed = len(kept) < original_length
Removed(kept, original) == Len(kept) < Len(original)

\* ProjectSettings.remove_constraint
DoRemoveConstraint(t) ==
    LET kept == FilterOut(Snap(t).constraints, call[t].name)
        removed == Removed(kept, Snap(t).constraints)
    IN  /\ AtMutate(t, "remove_constraint")
        /\ SetSnap(t, [Snap(t) EXCEPT !.constraints = kept])
        /\ IF removed THEN ToPersist(t) ELSE Finish(t, "False")
        /\ UNCHANGED <<fs, lock, call, nops, pre, abs, done, out, runs>>

\* the list update_constraint leaves: the first entry named n replaced
ReplaceFirst(cs, n, kw) ==
    [cs EXCEPT ![FirstIndex(cs, n)] = ConstraintCopy(@, kw)]

\* a search that always reports the name found
FoundAlways(cs, n) == TRUE

\* "constraint is not None" after the search loop
Found(cs, n) == FirstIndex(cs, n) # 0

\* ProjectSettings.update_constraint
DoUpdateConstraint(t) ==
    /\ AtMutate(t, "update_constraint")
    /\ IF ~Found(Snap(t).constraints, call[t].name)
       THEN Finish(t, "False") /\ UNCHANGED mem
       ELSE /\ SetSnap(t, [Snap(t) EXCEPT
                    !.constraints = ReplaceFirst(@, call[t].name, call[t].ckw)])
            /\ ToPersist(t)
    /\ UNCHANGED <<fs, lock, call, nops, pre, abs, done, out, runs>>

\* a membership test on whole scenarios, all fields compared
ScenarioExistsStructural(ds, sc) == \E k \in 1..Len(ds) : ds[k] = sc

\* scenario.name and any(s.name == scenario.name for s in dataset)
ScenarioExists(ds, sc) == Truthy(sc.name) /\ AnyName(ds, sc.name)

\* ProjectSettings.add_scenario
DoAddScenario(t) ==
    LET ds == IF Snap(t).dataset = None THEN <<>> ELSE Snap(t).dataset[1]
    IN  /\ AtMutate(t, "add_scenario")
        /\ IF ScenarioExists(ds, call[t].scen)
           THEN /\ SetSnap(t, [Snap(t) EXCEPT !.dataset = Some(ds)])
                /\ Finish(t, "ValueError")
           ELSE /\ SetSnap(t, [Snap(t) EXCEPT
                            !.dataset = Some(AppendEntry(ds, call[t].scen))])
                /\ ToPersist(t)
        /\ UNCHANGED <<fs, lock, call, nops, pre, abs, done, out, runs>>

\* a removal that takes an absent dataset for an empty list
RemoveFromDatasetOrEmpty(ds, n) ==
    Some(FilterOut(IF ds = None THEN <<>> ELSE ds[1], Some(n)))

\* the dataset remove_scenario leaves in memory: None is returned from
\* before the filter
RemoveFromDataset(ds, n) ==
    IF ds = None THEN None ELSE Some(FilterOut(ds[1], Some(n)))

\* ProjectSettings.remove_scenario
DoRemoveScenario(t) ==
    LET ds == Snap(t).dataset
        kept == RemoveFromDataset(ds, call[t].name)
    IN  /\ AtMutate(t, "remove_scenario")
        /\ SetSnap(t, [Snap(t) EXCEPT !.dataset = kept])
        /\ IF ds # None /\ Removed(kept[1], ds[1])
           THEN ToPersist(t) ELSE Finish(t, "False")
        /\ UNCHANGED <<fs, lock, call, nops, pre, abs, done, out, runs>>

Mutate(t) ==
    \/ DoUpdate(t)
    \/ DoAddConstraint(t)
    \/ DoRemoveConstraint(t)
    \/ DoUpdateConstraint(t)
    \/ DoAddScenario(t)
    \/ DoRemoveScenario(t)

Persist(t) == MkStemp(t) \/ Write(t) \/ Replace(t)

-----------------------------------------------------------------------------
(* Calls *)

CallOf(op, i) == [NoCall EXCEPT !.op = op, !.inst = i]

UpdateCall(i, kw) == [CallOf("update", i) EXCEPT !.ukw = kw]
AddConstraintCall(i, c) == [CallOf("add_constraint", i) EXCEPT !.cons = c]
RemoveConstraintCall(i, n) == [CallOf("remove_constraint", i) EXCEPT !.name = n]
UpdateConstraintCall(i, n, kw) ==
    [CallOf("update_constraint", i) EXCEPT !.name = n, !.ckw = kw]
AddScenarioCall(i, sc) == [CallOf("add_scenario", i) EXCEPT !.scen = sc]
RemoveScenarioCall(i, n) == [CallOf("remove_scenario", i) EXCEPT !.name = n]

\* every operation, persist_settings too, reloading first
FirstStepReload(op) == "reload"

\* the operations of ProjectSettings that start "with self._lock:"
FirstStep(op) == IF op = "persist_settings" THEN "mkstemp" ELSE "reload"

Begin(t, c) ==
    /\ pc[t] = "idle"
    /\ mem[c.inst] # None
    /\ Enter(t, c, FirstStep(c.op))
    /\ nops' = nops + 1
    /\ UNCHANGED abs

\* tools.update_request_schema / tools.update_response_schema up to the call of
\* ProjectSettings.update: the unlocked read of settings.schema_definition and
\* the construction of new_schema_def
\* a replacement built without the current value
NewSchemaDefBlank(which, current, schema) ==
    IF which = "update_request_schema"
    THEN UserAPISchemaDefinition(schema, "{}")
    ELSE UserAPISchemaDefinition("{}", schema)

NewSchemaDef(which, current, schema) ==
    IF which = "update_request_schema"
    THEN UserAPISchemaDefinition(schema,
             IF current # None THEN current[1].response_schema ELSE "{}")
    ELSE UserAPISchemaDefinition(
             IF current # None THEN current[1].request_schema ELSE "{}", schema)

ToolRead(t, i, which, schema) ==
    /\ pc[t] = "idle"
    /\ mem[i] # None
    /\ pc' = [pc EXCEPT ![t] = "tool"]
    /\ call' = [call EXCEPT ![t] =
          [UpdateCall(i, [NoSnapshotKw EXCEPT !.schema_definition =
               Some(Some(NewSchemaDef(which, mem[i][1].schema_definition, schema)))])
           EXCEPT !.tool = which, !.schema = schema]]
    /\ pre' = [pre EXCEPT ![t].rfile = fs[SettingsFile(i)], ![t].rmem = mem[i]]
    /\ nops' = nops + 1
    /\ UNCHANGED <<fs, mem, lock, ret, abs, done, out, runs>>

\* the tool's call of ProjectSettings.update(schema_definition=new_schema_def)
ToolUpdate(t) ==
    /\ pc[t] = "tool"
    /\ Enter(t, call[t], "reload")
    /\ UNCHANGED <<nops, abs>>

-----------------------------------------------------------------------------
(* The program under arbitrary callers: two instances on one directory *)

Snapshot0 ==
    ProjectSnapshot(Some("T0"), None,
                    <<Constraint("c1", "d", "hard")>>,
                    Some(UserAPISchemaDefinition("R1", "P1")),
                    Some(<<Scenario(Some("s1"), None, Some("s1.json"))>>))

Supplied == {None, Some(Snapshot0)}

SnapshotKws ==
    {[NoSnapshotKw EXCEPT !.title = Some(Some("T1"))],
     [NoSnapshotKw EXCEPT !.description = Some(Some("D1"))]}

NewScenarios ==
    {Scenario(Some("s1"), Some("again"), Some("s1b.json")),
     Scenario(Some(""), None, Some("e.json")),
     Scenario(None, None, Some("u.json"))}

Calls ==
    UNION {
        {UpdateCall(i, kw) : kw \in SnapshotKws}
        \cup {AddConstraintCall(i, Constraint(n, "new", "soft")) : n \in CNames}
        \cup {RemoveConstraintCall(i, n) : n \in CNames}
        \cup {UpdateConstraintCall(i, n, [NoConstraintKw EXCEPT !.description = Some("x")])
                 : n \in CNames}
        \cup {UpdateConstraintCall(i, "c1", [NoConstraintKw EXCEPT !.name = Some("c2")])}
        \cup {AddScenarioCall(i, sc) : sc \in NewScenarios}
        \cup {RemoveScenarioCall(i, "s1"), CallOf("persist_settings", i)}
      : i \in {"A", "B"}}

Tools == {"update_request_schema", "update_response_schema"}

NewSchema(w) == IF w = "update_request_schema" THEN "R2" ELSE "P2"

Steps ==
    \/ \E t \in Threads : ToolUpdate(t)
    \/ \E t \in Threads : Reload(t)
    \/ \E t \in Threads : Mutate(t)
    \/ \E t \in Threads : Persist(t)
    \/ \E t \in Threads : Release(t)

\* A and B are interchangeable, so only A is ever given a supplied snapshot
Next ==
    \/ \E sup \in Supplied : Open("A", sup)
    \/ Open("B", None)
    \/ \E t \in Threads, c \in Calls : nops < MaxOps /\ Begin(t, c)
    \/ \E t \in Threads, i \in {"A", "B"}, w \in Tools :
          nops < MaxOps /\ ToolRead(t, i, w, NewSchema(w))
    \/ Steps

Spec == Init /\ [][Next]_vars

-----------------------------------------------------------------------------
(* Instances on two directories: A and B on d1, C on d2 *)

LockCalls ==
    UNION {{CallOf("persist_settings", i),
            UpdateCall(i, [NoSnapshotKw EXCEPT !.title = Some(Some("T1"))]),
            AddConstraintCall(i, Constraint("c1", "new", "soft")),
            RemoveConstraintCall(i, "c1"),
            UpdateConstraintCall(i, "c1", [NoConstraintKw EXCEPT !.description = Some("x")]),
            AddScenarioCall(i, Scenario(Some("s1"), None, Some("s1.json"))),
            RemoveScenarioCall(i, "s1")}
           : i \in Instances}

NextLock ==
    \/ \E i \in Instances : Open(i, None)
    \/ \E t \in Threads, c \in LockCalls : nops < MaxOps /\ Begin(t, c)
    \/ \E t \in Threads : Reload(t)
    \/ \E t \in Threads : Mutate(t)
    \/ \E t \in Threads : Persist(t)
    \/ \E t \in Threads : Release(t)

SpecLock == Init /\ [][NextLock]_vars

-----------------------------------------------------------------------------
(* Threads that each add PerThread constraints under names of their own,    *)
(* as test_concurrent_add_constraints_no_lost_updates does                  *)

\* f"thread_{thread_id}_constraint_{i}"
LoopName(t, k) == "thread_" \o ToString(t) \o "_constraint_" \o ToString(k)

LoopConstraint(t, k) ==
    Constraint(LoopName(t, k), "from thread", IF k % 2 = 0 THEN "hard" ELSE "soft")

\* one iteration of the thread's loop: settings.add_constraint(constraint)
LoopAdd(t, i) ==
    /\ pc[t] = "idle"
    /\ done[t] < PerThread
    /\ mem[i] # None
    /\ Enter(t, [AddConstraintCall(i, LoopConstraint(t, done[t])) EXCEPT !.loop = TRUE],
             "reload")
    /\ UNCHANGED <<nops, abs>>

AddSteps ==
    \/ \E t \in Threads : Reload(t)
    \/ \E t \in Threads : DoAddConstraint(t)
    \/ \E t \in Threads : Persist(t)
    \/ \E t \in Threads : Release(t)

\* settings = ProjectSettings(temp_directory) on an empty directory
InitAdd ==
    /\ Init!1 /\ lock = 0 /\ pc = [t \in Threads |-> "idle"]
    /\ mem = [i \in Instances |-> IF i = "A" THEN Some(DefaultSnapshot) ELSE None]
    /\ call = [t \in Threads |-> NoCall]
    /\ ret = [t \in Threads |-> ""]
    /\ nops = 0
    /\ pre = [t \in Threads |-> NoPre]
    /\ abs = <<>>
    /\ done = [t \in Threads |-> 0]
    /\ out = NoOut
    /\ runs = <<>>

NextAdd ==
    \/ \E t \in Threads : LoopAdd(t, "A")
    \/ AddSteps

SpecAdd == InitAdd /\ [][NextAdd]_vars

\* the same loops, each thread on an instance of its own kind: odd threads
\* use A and even threads use B, constructed at any time, with or without a
\* supplied snapshot
InstanceOf(t) == IF t % 2 = 1 THEN "A" ELSE "B"

NextInst ==
    \/ \E i \in {"A", "B"}, sup \in Supplied : Open(i, sup)
    \/ \E t \in Threads : LoopAdd(t, InstanceOf(t))
    \/ AddSteps

SpecInst == Init /\ [][NextInst]_vars

-----------------------------------------------------------------------------
(* Threads that mix add, update and remove on one persisted instance, as    *)
(* test_concurrent_mixed_operations does                                    *)

InitialConstraints == <<Constraint("c1", "Initial", "hard"), Constraint("c2", "Initial", "hard")>>

MixedSnapshot == ProjectSnapshot(Some("Concurrent Test"), None, InitialConstraints, None, None)

\* what a caller expects of one call made alone on the constraint list cs
SeqApply(cs, c) ==
    CASE c.op = "add_constraint" ->
            IF c.cons.name \in SeqNames(cs) THEN cs ELSE cs \o <<c.cons>>
      [] c.op = "remove_constraint" ->
            SelectSeq(cs, LAMBDA x : x.name # c.name)
      [] c.op = "update_constraint" ->
            [k \in 1..Len(cs) |->
                IF cs[k].name = c.name /\ \A j \in 1..(k - 1) : cs[j].name # c.name
                THEN [cs[k] EXCEPT !.description = c.ckw.description[1]]
                ELSE cs[k]]
      [] OTHER -> cs

\* the thread's next call: an add under a name of its own, then an update of
\* an initial constraint, then a removal of an initial constraint, and again
MixedCalls(t) ==
    CASE done[t] % 3 = 0 ->
            {[AddConstraintCall("A", LoopConstraint(t, done[t])) EXCEPT !.loop = TRUE]}
      [] done[t] % 3 = 1 ->
            {[UpdateConstraintCall("A", n,
                 [NoConstraintKw EXCEPT !.description = Some("Updated")])
              EXCEPT !.loop = TRUE] : n \in CNames}
      [] OTHER ->
            {[RemoveConstraintCall("A", n) EXCEPT !.loop = TRUE] : n \in CNames}

\* one call of the thread's sequence; the replay list follows the order in
\* which the calls take the lock
LoopCall(t, c) ==
    /\ pc[t] = "idle"
    /\ done[t] < MixedLen
    /\ Enter(t, c, "reload")
    /\ abs' = SeqApply(abs, c)
    /\ UNCHANGED nops

\* settings = ProjectSettings(dir, ProjectSnapshot(...)); settings.persist_settings()
InitMixed ==
    /\ fs = [p \in Paths |-> IF p = TargetOf("d1") THEN Some(ModelDumpJson(MixedSnapshot))
                                                   ELSE None]
    /\ mem = [i \in Instances |-> IF i = "A" THEN Some(MixedSnapshot) ELSE None]
    /\ lock = 0
    /\ pc = [t \in Threads |-> "idle"]
    /\ call = [t \in Threads |-> NoCall]
    /\ ret = [t \in Threads |-> ""]
    /\ nops = 0
    /\ pre = [t \in Threads |-> NoPre]
    /\ abs = InitialConstraints
    /\ done = [t \in Threads |-> 0]
    /\ out = NoOut
    /\ runs = <<>>

NextMixed ==
    \/ \E t \in Threads : \E c \in MixedCalls(t) : LoopCall(t, c)
    \/ \E t \in Threads : Reload(t)
    \/ \E t \in Threads : DoAddConstraint(t)
    \/ \E t \in Threads : DoRemoveConstraint(t)
    \/ \E t \in Threads : DoUpdateConstraint(t)
    \/ \E t \in Threads : Persist(t)
    \/ \E t \in Threads : Release(t)

SpecMixed == InitMixed /\ [][NextMixed]_vars

-----------------------------------------------------------------------------
(* A file system whose calls can raise: mkstemp, the write to the temporary *)
(* file and the rename each either succeed or raise OSError                 *)

\* an except branch that leaves the temporary file behind
KeepTmp(path) == fs

\* os.unlink(tmp_path) in the except branch of _persist_unlocked
Unlink(path) == [fs EXCEPT ![path] = None]

\* a failure handler that restores the snapshot the operation started from
MemRolledBack(t) ==
    [mem EXCEPT ![call[t].inst] =
        IF pre[t].file # None THEN Some(ModelValidateJson(pre[t].file[1])) ELSE pre[t].mem]

\* the instances' snapshots after _persist_unlocked raised: neither its except
\* branch nor the calling operation assigns self.project_snapshot
MemAfterFailure(t) == mem

\* tempfile.mkstemp raises, before the try: no temporary file was created
MkStempFail(t) ==
    /\ pc[t] = "mkstemp"
    /\ Finish(t, "OSError")
    /\ mem' = MemAfterFailure(t)
    /\ UNCHANGED <<fs, lock, call, nops, pre, abs, done, out, runs>>

\* os.fdopen or f.write raises: the except branch unlinks and re-raises
WriteFail(t) ==
    /\ pc[t] = "write"
    /\ fs' = Unlink(WritePath(call[t].inst, t))
    /\ Finish(t, "OSError")
    /\ mem' = MemAfterFailure(t)
    /\ UNCHANGED <<lock, call, nops, pre, abs, done, out, runs>>

\* os.replace raises: the except branch unlinks and re-raises
ReplaceFail(t) ==
    /\ pc[t] = "replace"
    /\ fs' = Unlink(WritePath(call[t].inst, t))
    /\ Finish(t, "OSError")
    /\ mem' = MemAfterFailure(t)
    /\ UNCHANGED <<lock, call, nops, pre, abs, done, out, runs>>

PersistFail(t) == MkStempFail(t) \/ WriteFail(t) \/ ReplaceFail(t)

FailCalls == {c \in LockCalls : c.inst \in {"A", "B"}}

NextFail ==
    \/ \E sup \in Supplied : Open("A", sup)
    \/ Open("B", None)
    \/ \E t \in Threads, c \in FailCalls : nops < MaxOps /\ Begin(t, c)
    \/ \E t \in Threads : Reload(t)
    \/ \E t \in Threads : Mutate(t)
    \/ \E t \in Threads : Persist(t)
    \/ \E t \in Threads : PersistFail(t)
    \/ \E t \in Threads : Release(t)

SpecFail == Init /\ [][NextFail]_vars

-----------------------------------------------------------------------------
(* Construction at any time: A is always constructed with Snapshot0         *)
(* supplied and B with no snapshot supplied; the operations run on B        *)

OpenCalls == {c \in Calls : c.inst = "B"}

NextOpen ==
    \/ Open("A", Some(Snapshot0))
    \/ Open("B", None)
    \/ \E t \in Threads, c \in OpenCalls : nops < MaxOps /\ Begin(t, c)
    \/ \E t \in Threads : Reload(t)
    \/ \E t \in Threads : Mutate(t)
    \/ \E t \in Threads : Persist(t)
    \/ \E t \in Threads : Release(t)

SpecOpen == Init /\ [][NextOpen]_vars

-----------------------------------------------------------------------------
(* Threads that each add PerThread scenarios under names of their own, as   *)
(* test_concurrent_add_scenarios_no_lost_updates does, through instances    *)
(* constructed with no snapshot supplied on a directory with no file        *)

\* f"scenario_thread_{thread_id}_{i}"
ScenarioName(t, k) == "scenario_thread_" \o ToString(t) \o "_" \o ToString(k)

LoopScenario(t, k) == Scenario(Some(ScenarioName(t, k)), Some("from thread"), None)

\* one iteration of the thread's loop: settings.add_scenario(scenario)
LoopAddScenario(t, i) ==
    /\ pc[t] = "idle"
    /\ done[t] < PerThread
    /\ mem[i] # None
    /\ Enter(t, [AddScenarioCall(i, LoopScenario(t, done[t])) EXCEPT !.loop = TRUE],
             "reload")
    /\ UNCHANGED <<nops, abs>>

NextScen ==
    \/ \E i \in {"A", "B"} : Open(i, None)
    \/ \E t \in Threads, i \in {"A", "B"} : LoopAddScenario(t, i)
    \/ \E t \in Threads : Reload(t)
    \/ \E t \in Threads : DoAddScenario(t)
    \/ \E t \in Threads : Persist(t)
    \/ \E t \in Threads : Release(t)

SpecScen == Init /\ [][NextScen]_vars

-----------------------------------------------------------------------------
(* A settings file that comes to hold a text that is not a snapshot: cut    *)
(* short, or complete with a constraint type outside Literal["hard","soft"] *)

BadTypeText ==
    ModelDumpJson(ProjectSnapshot(Some("T0"), None, <<Constraint("c1", "d", "bogus")>>,
                                  None, None))

CorruptTexts == {PartialText, BadTypeText}

\* the file is replaced from outside the program, between operations
Corrupt(d, text) ==
    /\ lock = 0
    /\ fs' = [fs EXCEPT ![TargetOf(d)] = Some(text)]
    /\ UNCHANGED <<mem, lock, pc, call, ret, nops, pre, abs, done, out, runs>>

NextCorrupt ==
    \/ \E sup \in Supplied : Open("A", sup)
    \/ Open("B", None)
    \/ \E text \in CorruptTexts : Corrupt("d1", text)
    \/ \E t \in Threads, c \in FailCalls : nops < MaxOps /\ Begin(t, c)
    \/ \E t \in Threads : Reload(t)
    \/ \E t \in Threads : Mutate(t)
    \/ \E t \in Threads : Persist(t)
    \/ \E t \in Threads : Release(t)

SpecCorrupt == Init /\ [][NextCorrupt]_vars

-----------------------------------------------------------------------------
(* Threads that wait for the lock, under fair scheduling: a thread that has *)
(* called an operation is at "waiting" until "with self._lock:" lets it in  *)

LiveCalls == {c \in LockCalls : c.inst = "A"}

\* thread t calls operation c and blocks on the lock
CallOp(t, c) ==
    /\ pc[t] = "idle"
    /\ mem[c.inst] # None
    /\ call' = [call EXCEPT ![t] = c]
    /\ pc' = [pc EXCEPT ![t] = "waiting"]
    /\ nops' = nops + 1
    /\ UNCHANGED <<fs, mem, lock, ret, pre, abs, done, out, runs>>

\* the lock is free and t gets it
Acquire(t) ==
    /\ pc[t] = "waiting"
    /\ Enter(t, call[t], FirstStep(call[t].op))
    /\ UNCHANGED <<nops, abs>>

NextLive ==
    \/ \E sup \in Supplied : Open("A", sup)
    \/ \E text \in CorruptTexts : Corrupt("d1", text)
    \/ \E t \in Threads, c \in LiveCalls : nops < MaxOps /\ CallOp(t, c)
    \/ \E t \in Threads : Acquire(t)
    \/ \E t \in Threads : Reload(t)
    \/ \E t \in Threads : Mutate(t)
    \/ \E t \in Threads : Persist(t)
    \/ \E t \in Threads : PersistFail(t)
    \/ \E t \in Threads : Release(t)

\* every thread that can take a step of its operation eventually takes one;
\* a step of _persist_unlocked either succeeds or raises
Fairness ==
    \A t \in Threads :
        /\ WF_vars(Acquire(t))
        /\ WF_vars(Reload(t))
        /\ WF_vars(Mutate(t))
        /\ WF_vars(Persist(t) \/ PersistFail(t))
        /\ WF_vars(Release(t))

SpecLive == Init /\ [][NextLive]_vars /\ Fairness

-----------------------------------------------------------------------------
(* Read accessors and lookups, called at any time by any caller             *)

\* an accessor that reads the snapshot from the file first
ProjectSnapshotOnDisk(i) == Reloaded(i)

\* self.project_snapshot, as the accessors of instance i read it
ProjectSnapshotOf(i) == mem[i][1]

\* get_constraint_by_name
GetConstraintByName(i, n) ==
    LET cs == ProjectSnapshotOf(i).constraints
    IN  IF FirstIndex(cs, n) = 0 THEN None ELSE Some(cs[FirstIndex(cs, n)])

\* get_scenario_by_name
GetScenarioByName(i, n) ==
    LET ds == ProjectSnapshotOf(i).dataset
    IN  IF ds = None THEN None
        ELSE IF FirstIndex(ds[1], Some(n)) = 0 THEN None
        ELSE Some(ds[1][FirstIndex(ds[1], Some(n))])

\* get_request_schema
GetRequestSchema(i) ==
    IF ProjectSnapshotOf(i).schema_definition # None
    THEN Some(ProjectSnapshotOf(i).schema_definition[1].request_schema)
    ELSE None

\* get_response_schema
GetResponseSchema(i) ==
    IF ProjectSnapshotOf(i).schema_definition # None
    THEN Some(ProjectSnapshotOf(i).schema_definition[1].response_schema)
    ELSE None

Properties == {"title", "description", "constraints", "schema_definition", "dataset"}

Lookups == {"get_constraint_by_name", "get_scenario_by_name"}

Accessors == Properties \cup Lookups \cup {"get_request_schema", "get_response_schema"}

\* the value accessor acc of instance i returns, n being a lookup's argument
Returned(acc, i, n) ==
    CASE acc \in Properties -> ProjectSnapshotOf(i)[acc]
      [] acc = "get_request_schema" -> GetRequestSchema(i)
      [] acc = "get_response_schema" -> GetResponseSchema(i)
      [] acc = "get_constraint_by_name" -> GetConstraintByName(i, n)
      [] acc = "get_scenario_by_name" -> GetScenarioByName(i, n)

\* a caller reads through instance i, whatever the threads are doing
Read(i, acc, n) ==
    /\ mem[i] # None
    /\ out' = [acc |-> acc, inst |-> i, name |-> n, val |-> <<Returned(acc, i, n)>>]
    /\ UNCHANGED <<fs, mem, lock, pc, call, ret, nops, pre, abs, done, runs>>

\* a supplied snapshot in which a constraint name and a scenario name occur
\* twice: ProjectSnapshot validates no uniqueness
SnapshotDup ==
    ProjectSnapshot(Some("T0"), Some("D0"),
                    <<Constraint("c2", "first", "hard"), Constraint("c1", "second", "soft"),
                      Constraint("c2", "third", "soft")>>,
                    Some(UserAPISchemaDefinition("R1", "P1")),
                    Some(<<Scenario(Some("s1"), Some("first"), Some("a.json")),
                           Scenario(Some("s1"), Some("second"), Some("b.json"))>>))

ReadCalls ==
    {CallOf("persist_settings", "A"),
     AddConstraintCall("A", Constraint("c1", "new", "soft")),
     RemoveScenarioCall("A", "s1")}

LookupNames(acc) ==
    IF acc = "get_constraint_by_name" THEN {"c1", "c2", "c3"}
    ELSE IF acc = "get_scenario_by_name" THEN {"s1", "s2"} ELSE {""}

NextRead ==
    \/ \E sup \in {None, Some(SnapshotDup)} : Open("A", sup)
    \/ Open("B", None)
    \/ \E t \in Threads, c \in ReadCalls : nops < MaxOps /\ Begin(t, c)
    \/ \E i \in {"A", "B"}, acc \in Accessors : \E n \in LookupNames(acc) : Read(i, acc, n)
    \/ \E t \in Threads : Reload(t)
    \/ \E t \in Threads : DoAddConstraint(t)
    \/ \E t \in Threads : DoRemoveScenario(t)
    \/ \E t \in Threads : Persist(t)
    \/ \E t \in Threads : Release(t)

SpecRead == Init /\ [][NextRead]_vars

-----------------------------------------------------------------------------
(* The tools of react_agent.tools: each returns a message string to the     *)
(* agent, or lets an exception of the ProjectSettings call through          *)

Message(text) == [kind |-> "returned", text |-> text]

Raised(e) == [kind |-> "raised", text |-> e]

EntityTools == {"add_constraint", "remove_constraint", "add_scenario", "remove_scenario"}

MutatingTools ==
    EntityTools \cup {"update_project_metadata", "update_request_schema",
                      "update_response_schema"}

\* a tool that uses runtime.context.project_settings without the check
UnboundOutcomeUnchecked(tool) == Raised("AttributeError")

\* what a tool returns when runtime.context.project_settings is None
UnboundOutcome(tool) ==
    IF tool = "read_problem_specification" THEN Message("{}")
    ELSE Message("Error: Project settings not initialized.")

\* what a tool returns to the agent when its ProjectSettings call ended in r;
\* an exception the tool does not catch is raised to the agent
ToolOutcome(tool, r) ==
    CASE tool = "add_constraint" ->
            IF r = "None" THEN Message("Successfully added constraint")
            ELSE IF r = "ValueError" THEN Message("Error adding constraint")
            ELSE Raised(r)
      [] tool = "remove_constraint" ->
            IF r = "True" THEN Message("Successfully removed constraint")
            ELSE IF r = "False" THEN Message("Constraint not found")
            ELSE Raised(r)
      [] tool = "add_scenario" ->
            IF r = "None" THEN Message("Successfully added scenario") ELSE Raised(r)
      [] tool = "remove_scenario" ->
            IF r = "True" THEN Message("Successfully removed scenario")
            ELSE IF r = "False" THEN Message("Scenario not found")
            ELSE Raised(r)

\* the ProjectSettings calls the entity tools make on the bound instance A
ToolCalls ==
    {[AddConstraintCall("A", Constraint(n, "new", "soft")) EXCEPT !.tool = "add_constraint"]
        : n \in CNames}
    \cup {[RemoveConstraintCall("A", n) EXCEPT !.tool = "remove_constraint"] : n \in CNames}
    \cup {[AddScenarioCall("A", sc) EXCEPT !.tool = "add_scenario"] : sc \in NewScenarios}
    \cup {[RemoveScenarioCall("A", "s1") EXCEPT !.tool = "remove_scenario"]}

\* a tool called while no settings are bound returns at once
ToolUnbound(tool) ==
    /\ out' = [acc |-> tool, inst |-> "", name |-> "", val |-> <<UnboundOutcome(tool)>>]
    /\ UNCHANGED <<fs, mem, lock, pc, call, ret, nops, pre, abs, done, runs>>

\* the ProjectSettings call of the tool leaves the with block and the tool
\* returns its message, or the exception goes on to the agent
ToolReturn(t) ==
    /\ pc[t] = "release"
    /\ call[t].tool \in EntityTools
    /\ lock' = 0
    /\ pc' = [pc EXCEPT ![t] = "idle"]
    /\ call' = [call EXCEPT ![t] = NoCall]
    /\ pre' = [pre EXCEPT ![t] = NoPre]
    /\ ret' = [ret EXCEPT ![t] = ""]
    /\ out' = [acc |-> call[t].tool, inst |-> call[t].inst, name |-> "",
               val |-> <<ToolOutcome(call[t].tool, ret[t])>>]
    /\ UNCHANGED <<fs, mem, nops, abs, done, runs>>

NextTools ==
    \/ \E sup \in Supplied : Open("A", sup)
    \/ \E tool \in MutatingTools \cup {"read_problem_specification"} : ToolUnbound(tool)
    \/ \E t \in Threads, c \in ToolCalls : nops < MaxOps /\ Begin(t, c)
    \/ \E t \in Threads : Reload(t)
    \/ \E t \in Threads : DoAddConstraint(t)
    \/ \E t \in Threads : DoRemoveConstraint(t)
    \/ \E t \in Threads : DoAddScenario(t)
    \/ \E t \in Threads : DoRemoveScenario(t)
    \/ \E t \in Threads : Persist(t)
    \/ \E t \in Threads : ToolReturn(t)

SpecTools == Init /\ [][NextTools]_vars

-----------------------------------------------------------------------------
(* Run records of the extended data model: RunSolverScript and the add      *)
(* operation on ProjectSnapshot.runs, whose code is not part of this        *)
(* revision; modelled from the specification's sections 3 and 4.2           *)

MaxRuns == 3

RunSolverScript(script, input, output) ==
    [solver_script_name |-> script, input_file |-> input, output_file |-> output]

Runs ==
    {RunSolverScript(s, i, o) : s \in {"s1", "s2"}, i \in {"a.json", "x.json"},
                                o \in {"b.json", "c.json"}}

\* a uniqueness test on the script name alone
RunExistsByScript(rs, r) ==
    \E k \in 1..Len(rs) : rs[k].solver_script_name = r.solver_script_name

\* the composite key: script name, input file and output file all identical
RunExists(rs, r) ==
    \E k \in 1..Len(rs) :
        /\ rs[k].solver_script_name = r.solver_script_name
        /\ rs[k].input_file = r.input_file
        /\ rs[k].output_file = r.output_file

\* Add(run): DuplicateEntity when the key is stored, else appended
AddRun(r) ==
    /\ Len(runs) < MaxRuns
    /\ IF RunExists(runs, r)
       THEN /\ runs' = runs
            /\ out' = [acc |-> "add_run", inst |-> "A", name |-> "",
                       val |-> <<[kind |-> "raised", text |-> "DuplicateEntity", run |-> r]>>]
       ELSE /\ runs' = Append(runs, r)
            /\ out' = [acc |-> "add_run", inst |-> "A", name |-> "",
                       val |-> <<[kind |-> "returned", text |-> "", run |-> r]>>]
    /\ UNCHANGED <<fs, mem, lock, pc, call, ret, nops, pre, abs, done>>

NextRuns == \E r \in Runs : AddRun(r)

SpecRuns == Init /\ [][NextRuns]_vars

-----------------------------------------------------------------------------
(* Threads that add constraints and scenarios in turn on one instance; abs  *)
(* records the entries in the order in which their adds took the lock       *)

\* the k-th add of thread t: a constraint or a scenario, of a name of its own
OrderedCall(t, k) ==
    IF (t + k) % 2 = 0
    THEN AddConstraintCall("A", LoopConstraint(t, k))
    ELSE AddScenarioCall("A", LoopScenario(t, k))

\* the entry an add call adds
EntryOf(c) == IF c.op = "add_constraint" THEN c.cons ELSE c.scen

\* thread t calls its next add and blocks on the lock
LoopOrdered(t) ==
    /\ pc[t] = "idle"
    /\ done[t] < PerThread
    /\ call' = [call EXCEPT ![t] = [OrderedCall(t, done[t]) EXCEPT !.loop = TRUE]]
    /\ pc' = [pc EXCEPT ![t] = "waiting"]
    /\ UNCHANGED <<fs, mem, lock, ret, nops, pre, abs, done, out, runs>>

\* the lock is free and the add of t gets it
AcquireOrdered(t) ==
    /\ pc[t] = "waiting"
    /\ Enter(t, call[t], "reload")
    /\ abs' = Append(abs, EntryOf(call[t]))
    /\ UNCHANGED nops

NextOrder ==
    \/ \E t \in Threads : LoopOrdered(t)
    \/ \E t \in Threads : AcquireOrdered(t)
    \/ \E t \in Threads : Reload(t)
    \/ \E t \in Threads : DoAddConstraint(t)
    \/ \E t \in Threads : DoAddScenario(t)
    \/ \E t \in Threads : Persist(t)
    \/ \E t \in Threads : Release(t)

SpecOrder == InitAdd /\ [][NextOrder]_vars

-----------------------------------------------------------------------------
(* Removals on lists in which a name occurs more than once: A is            *)
(* constructed with SnapshotDup or Snapshot0 supplied, B with none          *)

RemoveCalls ==
    UNION {{RemoveConstraintCall(i, n) : n \in CNames}
           \cup {RemoveScenarioCall(i, n) : n \in {"s1", "s2"}}
           \cup {CallOf("persist_settings", i)}
          : i \in {"A", "B"}}

NextRemove ==
    \/ \E sup \in {Some(SnapshotDup), Some(Snapshot0)} : Open("A", sup)
    \/ Open("B", None)
    \/ \E t \in Threads, c \in RemoveCalls : nops < MaxOps /\ Begin(t, c)
    \/ \E t \in Threads : Reload(t)
    \/ \E t \in Threads : DoRemoveConstraint(t)
    \/ \E t \in Threads : DoRemoveScenario(t)
    \/ \E t \in Threads : Persist(t)
    \/ \E t \in Threads : Release(t)

SpecRemove == Init /\ [][NextRemove]_vars

-----------------------------------------------------------------------------
(* An instance constructed with a supplied snapshot that is never           *)
(* persisted: A is constructed with Snapshot0, B with none, at any time,    *)
(* and operations run through both                                          *)

NextDiscard ==
    \/ Open("A", Some(Snapshot0))
    \/ Open("B", None)
    \/ \E t \in Threads, c \in Calls : nops < MaxOps /\ Begin(t, c)
    \/ \E t \in Threads : Reload(t)
    \/ \E t \in Threads : Mutate(t)
    \/ \E t \in Threads : Persist(t)
    \/ \E t \in Threads : Release(t)

SpecDiscard == Init /\ [][NextDiscard]_vars

-----------------------------------------------------------------------------
(* Failing writes through one instance, on a directory where optigen.json   *)
(* may exist before the instance is constructed                             *)

InitAhead ==
    /\ fs \in {[p \in Paths |-> None],
               [p \in Paths |-> IF p = TargetOf("d1") THEN Some(ModelDumpJson(Snapshot0))
                                                      ELSE None]}
    /\ mem = [i \in Instances |-> None]
    /\ lock = 0
    /\ pc = [t \in Threads |-> "idle"]
    /\ call = [t \in Threads |-> NoCall]
    /\ ret = [t \in Threads |-> ""]
    /\ nops = 0
    /\ pre = [t \in Threads |-> NoPre]
    /\ abs = <<>>
    /\ done = [t \in Threads |-> 0]
    /\ out = NoOut
    /\ runs = <<>>

AheadCalls == {c \in Calls : c.inst = "A"}

NextAhead ==
    \/ \E sup \in Supplied : Open("A", sup)
    \/ \E t \in Threads, c \in AheadCalls : nops < MaxOps /\ Begin(t, c)
    \/ \E t \in Threads : Reload(t)
    \/ \E t \in Threads : Mutate(t)
    \/ \E t \in Threads : Persist(t)
    \/ \E t \in Threads : PersistFail(t)
    \/ \E t \in Threads : Release(t)

SpecAhead == InitAhead /\ [][NextAhead]_vars

-----------------------------------------------------------------------------
(* What the file holds *)

FileExists(d) == fs[TargetOf(d)] # None

FileSnapshot(d) == ModelValidateJson(fs[TargetOf(d)][1])

FileConstraints(d) == IF FileExists(d) THEN FileSnapshot(d).constraints ELSE <<>>

Unique(s) == \A j, k \in 1..Len(s) : s[j].name = s[k].name => j = k

AllLoopsDone == \A t \in Threads : pc[t] = "idle" /\ done[t] = PerThread

-----------------------------------------------------------------------------
(* Claims *)

\* C1: when every thread has finished its PerThread add_constraint calls on
\* the one shared instance, optigen.json holds exactly NumThreads * PerThread
\* constraints and their names are pairwise distinct.
C1_NoLostUpdates ==
    AllLoopsDone =>
        /\ FileExists("d1")
        /\ Len(FileConstraints("d1")) = NumThreads * PerThread
        /\ Cardinality(SeqNames(FileConstraints("d1"))) = NumThreads * PerThread

\* all loops are done and the threads' adds were interleaved in the file
C1_Witness ==
    /\ AllLoopsDone
    /\ FileConstraints("d1")[1].name = LoopName(1, 0)
    /\ FileConstraints("d1")[2].name = LoopName(2, 0)

\* C2: with the threads spread over independently constructed instances on one
\* directory, every add returns normally and every constraint whose add has
\* returned is in the file, whatever snapshot each instance had cached.
C2_NoLostUpdatesAcrossInstances ==
    /\ \A t \in Threads : pc[t] = "release" => ret[t] = "None"
    /\ \A t \in Threads : \A k \in 0..(done[t] - 1) :
          LoopName(t, k) \in SeqNames(FileConstraints("d1"))

\* an add through B returns after B's cached snapshot, which differed from
\* the file, was replaced by the file's; the file holds the add made through
\* A and this one
C2_Witness ==
    \E t \in Threads :
        /\ pc[t] = "release" /\ ret[t] = "None" /\ call[t].inst = "B"
        /\ pre[t].file # None
        /\ pre[t].mem[1] # ModelValidateJson(pre[t].file[1])
        /\ AnyName(FileConstraints("d1"), LoopName(1, 0))
        /\ AnyName(FileConstraints("d1"), call[t].cons.name)

\* C3: at most one thread is inside a locked section, over all instances and
\* all directories.
C3_MutualExclusion ==
    Cardinality({t \in Threads : InSection(t)}) <= 1

\* a thread is inside the section of an instance on d2 after a commit on d1
C3_Witness ==
    \E t \in Threads :
        /\ InSection(t)
        /\ call[t].inst = "C"
        /\ FileExists("d1")
        /\ mem["A"] # None /\ mem["B"] # None

\* C4: the settings file, when present, always holds a complete document that
\* validates and is the serialization of the snapshot it parses to; its content
\* changes only in the rename step, to the serialization of the snapshot the
\* renaming instance holds in memory at that step.
C4_FileNeverTorn ==
    /\ [](\A d \in Dirs : FileExists(d) =>
            /\ Validates(fs[TargetOf(d)][1])
            /\ ModelDumpJson(FileSnapshot(d)) = fs[TargetOf(d)][1])
    /\ [][\A d \in Dirs : fs'[TargetOf(d)] # fs[TargetOf(d)] =>
            \E t \in Threads :
                /\ pc[t] = "replace"
                /\ Directory(call[t].inst) = d
                /\ fs'[TargetOf(d)] = Some(ModelDumpJson(mem[call[t].inst][1]))]_vars

\* a write is in flight (the temporary file holds the new text, the rename is
\* still to come) while the other instance, constructed without the lock
\* after the file appeared, holds the previous version, which is still what
\* the settings file holds
C4_Witness ==
    \E t \in Threads : \E i \in {"A", "B"} :
        /\ pc[t] = "replace"
        /\ i # call[t].inst
        /\ FileExists("d1")
        /\ fs[WritePath(call[t].inst, t)] # fs[TargetOf("d1")]
        /\ pre[t].mem # None
        /\ mem[i] = Some(FileSnapshot("d1"))
        /\ mem[i] # Some(DefaultSnapshot) /\ mem[i] # Some(Snapshot0)

\* C5: for threads mixing add_constraint (new names), update_constraint and
\* remove_constraint on one instance, no call raises, and whenever no call is
\* in its locked section the file's constraint list equals the list obtained
\* by replaying the calls one at a time in the order they took the lock.
C5_MixedSerialized ==
    /\ \A t \in Threads : pc[t] = "release" => ret[t] \in {"None", "True", "False"}
    /\ lock = 0 => FileConstraints("d1") = abs

\* all threads are done; an initial constraint was updated, the other removed
\* before its update was tried, and the adds of both threads are in the list
C5_Witness ==
    /\ \A t \in Threads : pc[t] = "idle" /\ done[t] = MixedLen
    /\ Len(abs) = 3
    /\ abs[1].name = "c1" /\ abs[1].description = "Updated"
    /\ abs[2].name = LoopName(2, 0)
    /\ abs[3].name = LoopName(1, 0)

\* the snapshot thread t's operation started from: the file's when the file
\* existed as the lock was taken, else the instance's cached one
Base(t) ==
    IF pre[t].file # None THEN ModelValidateJson(pre[t].file[1]) ELSE pre[t].mem[1]

Finishing(t, op) == pc[t] = "release" /\ call[t].op = op

\* C6: an add_constraint whose name is already in the list it reloaded ends in
\* ValueError, with the settings file as it was when the lock was taken, no
\* temporary file left, and the in-memory list equal to the reloaded list.
C6_DuplicateRejected ==
    \A t \in Threads :
        (Finishing(t, "add_constraint") /\ AnyName(Base(t).constraints, call[t].cons.name)) =>
            /\ ret[t] = "ValueError"
            /\ fs[SettingsFile(call[t].inst)] = pre[t].file
            /\ fs[TmpPath(call[t].inst, t)] = None
            /\ mem[call[t].inst][1].constraints = Base(t).constraints

\* a duplicate add is finishing on a file that holds the name with other fields
C6_Witness ==
    \E t \in Threads :
        /\ Finishing(t, "add_constraint")
        /\ pre[t].file # None
        /\ \E k \in 1..Len(Base(t).constraints) :
              /\ Base(t).constraints[k].name = call[t].cons.name
              /\ Base(t).constraints[k] # call[t].cons
        /\ ret[t] = "ValueError"

\* the name the uniqueness check of an add looks for, and the list it is
\* looked for in
AddedKey(c) == IF c.op = "add_constraint" THEN Some(c.cons.name) ELSE c.scen.name

KeysOf(s, op) ==
    IF op = "add_constraint" THEN {Some(n) : n \in SeqNames(s.constraints)}
    ELSE IF s.dataset = None THEN {} ELSE SeqNames(s.dataset[1])

IsAdd(t) == pc[t] = "release" /\ call[t].op \in {"add_constraint", "add_scenario"}

\* C7: an add_constraint or add_scenario of a (non-empty) name that the file
\* held when the lock was taken ends in ValueError and leaves the file as it
\* was, also when the instance's cached snapshot did not hold the name.
C7_CheckedAgainstFile ==
    \A t \in Threads :
        (/\ IsAdd(t)
         /\ pre[t].file # None
         /\ Truthy(AddedKey(call[t]))
         /\ AddedKey(call[t]) \in KeysOf(ModelValidateJson(pre[t].file[1]), call[t].op)) =>
            /\ ret[t] = "ValueError"
            /\ fs[SettingsFile(call[t].inst)] = pre[t].file

\* an add is rejected for a name that is in the file, committed through the
\* other instance, and that the adding instance's cached snapshot lacked
C7_Witness ==
    \E t \in Threads :
        /\ IsAdd(t)
        /\ call[t].op = "add_constraint"
        /\ ret[t] = "ValueError"
        /\ pre[t].file # None
        /\ AddedKey(call[t]) \notin KeysOf(pre[t].mem[1], call[t].op)
        /\ \E i \in Instances : i # call[t].inst /\ mem[i] = Some(ModelValidateJson(pre[t].file[1]))

\* the same for a scenario
C7_WitnessScenario ==
    \E t \in Threads :
        /\ IsAdd(t)
        /\ call[t].op = "add_scenario"
        /\ ret[t] = "ValueError"
        /\ pre[t].file # None
        /\ AddedKey(call[t]) \notin KeysOf(pre[t].mem[1], call[t].op)

\* C8: whenever no operation is in its locked section (every operation so far
\* has returned), no two constraints share a name, in the memory of each
\* instance and in the file.
C8_ConstraintNamesUnique ==
    lock = 0 =>
        /\ \A i \in Instances : mem[i] # None => Unique(mem[i][1].constraints)
        /\ \A d \in Dirs : Unique(FileConstraints(d))

NamedUnique(ds) ==
    \A j, k \in 1..Len(ds) : (Truthy(ds[j].name) /\ ds[j].name = ds[k].name) => j = k

DatasetOf(s) == IF s.dataset = None THEN <<>> ELSE s.dataset[1]

FileDataset(d) == IF FileExists(d) THEN DatasetOf(FileSnapshot(d)) ELSE <<>>

\* two scenarios both named by the empty string are in the file's dataset
TwoEmptyNames ==
    \E j, k \in 1..Len(FileDataset("d1")) :
        j # k /\ FileDataset("d1")[j].name = Some("") /\ FileDataset("d1")[k].name = Some("")

\* C9: in every reachable state no two scenarios that have a name (a non-empty
\* string; None and "" are what add_scenario treats as unnamed) share it, in the
\* memory of each instance and in the file.
C9_ScenarioNamesUnique ==
    /\ \A i \in Instances : mem[i] # None => NamedUnique(DatasetOf(mem[i][1]))
    /\ \A d \in Dirs : NamedUnique(FileDataset(d))

\* an add_scenario of a stored name is being rejected on a file whose dataset
\* holds that name and an unnamed scenario
C9_Witness ==
    \E t \in Threads :
        /\ Finishing(t, "add_scenario")
        /\ ret[t] = "ValueError"
        /\ Len(FileDataset("d1")) = 2
        /\ FileDataset("d1")[1].name = call[t].scen.name
        /\ FileDataset("d1")[2].name = None

\* the schema definition stored when the tool read it: the file's when there
\* was a file, else the instance's
StoredAtRead(t) ==
    IF pre[t].rfile # None THEN ModelValidateJson(pre[t].rfile[1]).schema_definition
    ELSE pre[t].rmem[1].schema_definition

\* the tool ran with nothing in between: the instance's cached schema
\* definition was the stored one and the file did not change between the
\* tool's read and its taking the lock
Sequential(t) ==
    /\ pre[t].rmem[1].schema_definition = StoredAtRead(t)
    /\ pre[t].file = pre[t].rfile

FileSchema(d) == FileSnapshot(d).schema_definition

\* C10: in the sequential case, with (R1, P1) stored, update_request_schema(R2)
\* leaves (R2, P1) in the file and update_response_schema(P2) leaves (R1, P2).
C10_PartialSchemaUpdate ==
    \A t \in Threads :
        (/\ pc[t] = "release" /\ call[t].tool \in Tools
         /\ Sequential(t)
         /\ StoredAtRead(t) # None) =>
            /\ ret[t] = "None"
            /\ FileExists(Directory(call[t].inst))
            /\ FileSchema(Directory(call[t].inst)) =
                 Some(IF call[t].tool = "update_request_schema"
                      THEN UserAPISchemaDefinition(call[t].schema,
                                                   StoredAtRead(t)[1].response_schema)
                      ELSE UserAPISchemaDefinition(StoredAtRead(t)[1].request_schema,
                                                   call[t].schema))

\* update_request_schema("R2") is finishing on a file that held (R1, P1)
C10_Witness ==
    \E t \in Threads :
        /\ pc[t] = "release" /\ call[t].tool = "update_request_schema"
        /\ Sequential(t)
        /\ pre[t].rfile # None
        /\ StoredAtRead(t) = Some(UserAPISchemaDefinition("R1", "P1"))
        /\ FileSchema("d1") = Some(UserAPISchemaDefinition("R2", "P1"))

\* the schema definition committed to the file when the call took the lock
CommittedSchema(t) == ModelValidateJson(pre[t].file[1]).schema_definition

\* C11: in every interleaving, and through an instance whose cached snapshot
\* is older than the file, a schema tool that finishes on a file that held a
\* schema definition when the lock was taken leaves the half it does not
\* update at the value that file held, and sets the other to the given schema.
C11_OtherHalfKept ==
    \A t \in Threads :
        (/\ pc[t] = "release" /\ call[t].tool \in Tools
         /\ pre[t].file # None
         /\ CommittedSchema(t) # None) =>
            FileSchema(Directory(call[t].inst)) =
                 Some(IF call[t].tool = "update_request_schema"
                      THEN UserAPISchemaDefinition(call[t].schema,
                                                   CommittedSchema(t)[1].response_schema)
                      ELSE UserAPISchemaDefinition(CommittedSchema(t)[1].request_schema,
                                                   call[t].schema))

C12_WitnessAbsent ==
    \E t \in Threads :
        /\ Finishing(t, "persist_settings")
        /\ ret[t] = "OSError"
        /\ ~FileExists(Directory(call[t].inst))

\* the instance comes to exist in this step
Constructed(i) == mem[i] = None /\ mem'[i] # None

\* C13: a ProjectSettings constructed while optigen.json exists holds the
\* snapshot parsed from the file, whatever snapshot was supplied; constructed
\* while the file is absent it holds the supplied snapshot (A, Snapshot0), or
\* with none supplied (B) the default snapshot: title None, no constraints,
\* dataset None.
C13_Open ==
    [][/\ Constructed("A") =>
            mem'["A"][1] = IF FileExists("d1") THEN FileSnapshot("d1") ELSE Snapshot0
       /\ Constructed("B") =>
            IF FileExists("d1") THEN mem'["B"][1] = FileSnapshot("d1")
            ELSE /\ mem'["B"][1] = ProjectSnapshot(None, None, <<>>, None, None)
                 /\ mem'["B"][1].title = None
                 /\ mem'["B"][1].constraints = <<>>
                 /\ mem'["B"][1].dataset = None]_vars

\* A, constructed with Snapshot0 supplied, holds the file's snapshot, which is
\* not Snapshot0
C13_Witness ==
    /\ mem["A"] # None
    /\ FileExists("d1")
    /\ mem["A"][1] = FileSnapshot("d1")
    /\ mem["A"][1] # Snapshot0

\* the operation of t wrote the file and is returning
Wrote(t) == pc[t] = "release" /\ ret[t] \in {"None", "True"}

\* C14: when an operation that wrote is returning (the lock still held, so no
\* other writer in between), a ProjectSettings constructed on the same
\* directory, with or without a supplied snapshot, holds a snapshot equal to
\* the in-memory snapshot of the instance that made the call.
C14_ReopenRoundTrip ==
    \A t \in Threads :
        Wrote(t) =>
            /\ FileExists(Directory(call[t].inst))
            /\ \A sup \in Supplied : \A j \in {"A", "B"} :
                  InitialSnapshot(j, sup) = Snap(t)

\* an add_scenario that wrote a scenario with a description and a request
\* path is returning, and a fresh instance would hold the caller's snapshot
C14_Witness ==
    \E t \in Threads :
        /\ Wrote(t) /\ call[t].op = "add_scenario"
        /\ call[t].scen.description # None /\ call[t].scen.request # None
        /\ Snap(t).dataset # None
        /\ Snap(t).dataset[1][Len(Snap(t).dataset[1])] = call[t].scen
        /\ InitialSnapshot("B", Some(Snapshot0)) = Snap(t)

\* the names stored when the call of t took the lock, in the list that
\* remove_constraint (constraints) or remove_scenario (dataset) filters
StoredKeys(t) ==
    IF call[t].op = "remove_constraint" THEN SeqNames(Base(t).constraints)
    ELSE {n[1] : n \in {m \in SeqNames(DatasetOf(Base(t))) : m # None}}

IsRemove(t) == pc[t] = "release" /\ call[t].op \in {"remove_constraint", "remove_scenario"}

\* C15: a remove_constraint or remove_scenario of a name that no stored entry
\* has returns False (no exception) and writes nothing: no temporary file, and
\* optigen.json has the text it had when the lock was taken, or is still
\* absent.
C15_RemoveAbsentNoOp ==
    \A t \in Threads :
        (IsRemove(t) /\ call[t].name \notin StoredKeys(t)) =>
            /\ ret[t] = "False"
            /\ fs[SettingsFile(call[t].inst)] = pre[t].file
            /\ fs[TmpPath(call[t].inst, t)] = None

\* a remove_constraint of a name the existing file lacks is returning False
C15_Witness ==
    \E t \in Threads :
        /\ Finishing(t, "remove_constraint")
        /\ pre[t].file # None
        /\ Len(Base(t).constraints) > 0
        /\ call[t].name \notin StoredKeys(t)
        /\ ret[t] = "False"

\* a remove_scenario on a directory with no file is returning False, and
\* there is still no file
C15_WitnessNoFile ==
    \E t \in Threads :
        /\ Finishing(t, "remove_scenario")
        /\ pre[t].file = None
        /\ ret[t] = "False"
        /\ ~FileExists(Directory(call[t].inst))

ConstraintFields == {"name", "description", "type", "rank", "formula", "where"}

\* c is b with exactly the fields given in kw changed to the given values
ChangedOnly(c, b, kw) ==
    \A f \in ConstraintFields : c[f] = IF kw[f] # None THEN kw[f][1] ELSE b[f]

\* C16: an update_constraint whose name is stored when the lock is taken
\* returns True and writes a list of the same length in which the first entry
\* of that name is replaced, in place, by a copy with exactly the given fields
\* changed, every other entry being the stored one at the same position.
C16_UpdateConstraintFound ==
    \A t \in Threads :
        (Finishing(t, "update_constraint")
         /\ call[t].name \in SeqNames(Base(t).constraints)) =>
            LET old == Base(t).constraints
                new == FileConstraints(Directory(call[t].inst))
            IN  /\ ret[t] = "True"
                /\ FileExists(Directory(call[t].inst))
                /\ Snap(t).constraints = new
                /\ Len(new) = Len(old)
                /\ \E j \in 1..Len(old) :
                      /\ old[j].name = call[t].name
                      /\ \A k \in 1..(j - 1) : old[k].name # call[t].name
                      /\ ChangedOnly(new[j], old[j], call[t].ckw)
                      /\ \A k \in 1..Len(old) : k # j => new[k] = old[k]

\* the second of two stored constraints is being given a new description:
\* the first is as it was, and the second differs in its description only
C16_Witness ==
    \E t \in Threads :
        /\ Finishing(t, "update_constraint")
        /\ ret[t] = "True"
        /\ pre[t].file # None
        /\ Len(Base(t).constraints) = 2
        /\ Base(t).constraints[2].name = call[t].name
        /\ call[t].ckw.description # None
        /\ FileConstraints("d1")[1] = Base(t).constraints[1]
        /\ FileConstraints("d1")[2] # Base(t).constraints[2]
        /\ FileConstraints("d1")[2].type = Base(t).constraints[2].type

\* C17: an update_constraint whose name is in no constraint of the list
\* reloaded under the lock returns False (no exception) and writes nothing: no
\* temporary file, and optigen.json has the text it had when the lock was
\* taken, or is still absent.
C17_UpdateConstraintNotFound ==
    \A t \in Threads :
        (Finishing(t, "update_constraint")
         /\ call[t].name \notin SeqNames(Base(t).constraints)) =>
            /\ ret[t] = "False"
            /\ fs[SettingsFile(call[t].inst)] = pre[t].file
            /\ fs[TmpPath(call[t].inst, t)] = None

\* an update_constraint is returning False for a name that the instance held
\* in memory and that the file, reloaded under the lock, no longer holds
C17_Witness ==
    \E t \in Threads :
        /\ Finishing(t, "update_constraint")
        /\ ret[t] = "False"
        /\ pre[t].file # None
        /\ call[t].name \in SeqNames(pre[t].mem[1].constraints)
        /\ call[t].name \notin SeqNames(Base(t).constraints)
        /\ fs[SettingsFile(call[t].inst)] = pre[t].file

UpdatableFields == {"title", "description", "schema_definition"}

\* C18: an update returns None and writes a snapshot in which each given
\* field has the given value and every other field has the value it had in
\* the file when the lock was taken, or in the instance's memory when there
\* was no file.
C18_UpdateShallowMerge ==
    \A t \in Threads :
        Finishing(t, "update") =>
            /\ ret[t] = "None"
            /\ FileExists(Directory(call[t].inst))
            /\ LET new == FileSnapshot(Directory(call[t].inst))
               IN  /\ \A f \in UpdatableFields :
                         new[f] = IF call[t].ukw[f] # None THEN call[t].ukw[f][1]
                                  ELSE Base(t)[f]
                   /\ \A f \in DOMAIN new \ UpdatableFields : new[f] = Base(t)[f]

\* an update of the title alone through an instance whose memory had no
\* constraint is finishing on a file that held a constraint and a dataset:
\* the file has the new title and still holds both
C18_Witness ==
    \E t \in Threads :
        /\ Finishing(t, "update")
        /\ call[t].ukw.title = Some(Some("T1"))
        /\ pre[t].file # None
        /\ pre[t].mem[1].constraints = <<>>
        /\ Base(t).constraints # <<>>
        /\ FileSnapshot("d1").title = Some("T1")
        /\ FileSnapshot("d1").constraints = Base(t).constraints
        /\ FileSnapshot("d1").dataset = Base(t).dataset

\* C19: when every thread has finished its PerThread add_scenario calls, made
\* under names of its own through instances whose dataset started as None on
\* a directory that had no file, the dataset in optigen.json is present and
\* holds exactly NumThreads * PerThread scenarios, one per call, with pairwise
\* distinct names.
C19_NoLostScenarios ==
    AllLoopsDone =>
        /\ FileExists("d1")
        /\ FileSnapshot("d1").dataset # None
        /\ Len(FileDataset("d1")) = NumThreads * PerThread
        /\ \A t \in Threads : \A k \in 0..(PerThread - 1) :
              \E j \in 1..Len(FileDataset("d1")) :
                 FileDataset("d1")[j] = LoopScenario(t, k)
        /\ Cardinality(SeqNames(FileDataset("d1"))) = NumThreads * PerThread

\* all loops are done and the threads' scenarios are interleaved in the file
C19_Witness ==
    /\ AllLoopsDone
    /\ FileDataset("d1")[1].name = Some(ScenarioName(1, 0))
    /\ FileDataset("d1")[2].name = Some(ScenarioName(2, 0))
    /\ FileDataset("d1")[3].name = Some(ScenarioName(1, 1))

\* C20: an add_scenario whose scenario is unnamed (name None or "") returns
\* None and appends it to the stored dataset, whatever that dataset holds; an
\* add_scenario of a non-empty name ends in ValueError, the file as it was,
\* exactly when a stored scenario has that name, and otherwise appends too.
C20_UnnamedNeverDuplicate ==
    \A t \in Threads :
        Finishing(t, "add_scenario") =>
            LET stored == DatasetOf(Base(t))
                named == call[t].scen.name \notin {None, Some("")}
                taken == \E k \in 1..Len(stored) : stored[k].name = call[t].scen.name
            IN  /\ ret[t] = IF named /\ taken THEN "ValueError" ELSE "None"
                /\ ret[t] = "ValueError" => fs[SettingsFile(call[t].inst)] = pre[t].file
                /\ ret[t] = "None" =>
                      FileSnapshot(Directory(call[t].inst)).dataset =
                          Some(Append(stored, call[t].scen))

\* an add of a scenario named "" is returning None on a file that already
\* held a scenario named "": the file now holds both
C20_Witness ==
    \E t \in Threads :
        /\ Finishing(t, "add_scenario")
        /\ call[t].scen.name = Some("")
        /\ pre[t].file # None
        /\ \E k \in 1..Len(DatasetOf(Base(t))) : DatasetOf(Base(t))[k].name = Some("")
        /\ ret[t] = "None"
        /\ TwoEmptyNames

\* the text is one that does not parse as a snapshot
IsCorrupt(f) == f # None /\ f[1] \in CorruptTexts

\* the operations that begin with _reload_from_disk
Reloading(t) == call[t].op \notin {"none", "persist_settings"}

\* C21: while optigen.json holds a text that does not parse as a snapshot no
\* ProjectSettings comes to exist on its directory, with or without a supplied
\* snapshot; and an operation of an existing instance that reloads such a
\* file never gets past the reload: it ends in ValidationError with no
\* temporary file, the file's text and the instance's snapshot as they were.
C21_CorruptSnapshot ==
    /\ [](\A t \in Threads :
            (Reloading(t) /\ IsCorrupt(pre[t].file)) =>
                /\ pc[t] \in {"reload", "release"}
                /\ fs[SettingsFile(call[t].inst)] = pre[t].file
                /\ fs[TmpPath(call[t].inst, t)] = None
                /\ mem[call[t].inst] = pre[t].mem
                /\ pc[t] = "release" => ret[t] = "ValidationError")
    /\ [][\A i \in {"A", "B"} : Constructed(i) => ~IsCorrupt(fs[SettingsFile(i)])]_vars

\* an add_constraint through an existing instance is ending in
\* ValidationError on a file that is complete but holds a constraint of an
\* unknown type, while the other instance has not come to exist
C21_Witness ==
    \E t \in Threads :
        /\ Finishing(t, "add_constraint")
        /\ pre[t].file = Some(BadTypeText)
        /\ ret[t] = "ValidationError"
        /\ fs[SettingsFile(call[t].inst)] = Some(BadTypeText)
        /\ \E i \in {"A", "B"} : mem[i] = None

\* C22: under fair scheduling every thread that has called an operation and
\* waits for the lock eventually is back at idle with the operation over,
\* whether it returned or raised (duplicate name, corrupt file, write
\* failure), and whenever a thread holds the lock the lock is eventually
\* free: no operation waits for the lock while holding it.
C22_LockReleased ==
    /\ \A t \in Threads : (pc[t] = "waiting") ~> (pc[t] = "idle")
    /\ \A t \in Threads : (lock = t) ~> (lock = 0)
    /\ [](\A t \in Threads : pc[t] = "waiting" => lock # t)

\* an operation that raised is about to release the lock while the other
\* thread waits for it
C22_Witness ==
    \E t, u \in Threads :
        /\ pc[t] = "release" /\ lock = t
        /\ ret[t] \in {"ValueError", "ValidationError", "OSError"}
        /\ pc[u] = "waiting"

\* r is what a lookup of key in list returns: None when no entry has the
\* name, else the first entry that has it
FirstMatch(r, list, key) ==
    IF \A k \in 1..Len(list) : list[k].name # key THEN r = None
    ELSE \E j \in 1..Len(list) :
            /\ list[j].name = key
            /\ \A k \in 1..(j - 1) : list[k].name # key
            /\ r = Some(list[j])

\* the value of the last read is the one the in-memory snapshot of its
\* instance gives
ReadFromMemory ==
    LET s == mem[out.inst][1]
        r == out.val[1]
    IN  CASE out.acc \in Properties -> r = s[out.acc]
          [] out.acc = "get_request_schema" ->
                r = IF s.schema_definition = None THEN None
                    ELSE Some(s.schema_definition[1].request_schema)
          [] out.acc = "get_response_schema" ->
                r = IF s.schema_definition = None THEN None
                    ELSE Some(s.schema_definition[1].response_schema)
          [] out.acc = "get_constraint_by_name" -> FirstMatch(r, s.constraints, out.name)
          [] out.acc = "get_scenario_by_name" ->
                IF s.dataset = None THEN r = None
                ELSE FirstMatch(r, s.dataset[1], Some(out.name))

\* C23: a step in which an accessor or lookup returns takes no lock, leaves
\* every file and every in-memory snapshot as they were and moves no thread,
\* and the value returned is the in-memory one: the property's field, the
\* schema half or None, and for a lookup the first entry of the given name, or
\* None when there is none or the dataset is None.
C23_ReadsArePure ==
    [][out' # out =>
          /\ fs' = fs /\ mem' = mem /\ lock' = lock /\ pc' = pc
          /\ ReadFromMemory']_vars

\* get_constraint_by_name returned the first of two constraints named c2
\* while an operation holds the lock, and get_scenario_by_name would find
\* nothing through the instance B, whose dataset is None
C23_Witness ==
    /\ out.acc = "get_constraint_by_name" /\ out.name = "c2" /\ out.inst = "A"
    /\ out.val = <<Some(Constraint("c2", "first", "hard"))>>
    /\ mem["A"][1].constraints[3].name = "c2"
    /\ lock # 0
    /\ mem["B"] # None /\ mem["B"][1].dataset = None

\* title returned None through B although the file holds a title
C23_WitnessStale ==
    /\ out.acc = "title" /\ out.inst = "B" /\ out.val = <<None>>
    /\ FileExists("d1") /\ FileSnapshot("d1").title # None

\* C24: a remove_scenario that reloaded a snapshot whose dataset is None
\* returns False and writes nothing (no temporary file, optigen.json as it
\* was or still absent), and the instance's dataset is still None, not an
\* empty list.
C24_AbsentDatasetStaysAbsent ==
    \A t \in Threads :
        (Finishing(t, "remove_scenario") /\ Base(t).dataset = None) =>
            /\ ret[t] = "False"
            /\ fs[SettingsFile(call[t].inst)] = pre[t].file
            /\ fs[TmpPath(call[t].inst, t)] = None
            /\ mem[call[t].inst][1].dataset = None
            /\ mem[call[t].inst][1].dataset # Some(<<>>)

\* a remove_scenario is returning False on a file whose dataset is None,
\* through an instance whose memory is the reloaded snapshot
C24_Witness ==
    \E t \in Threads :
        /\ Finishing(t, "remove_scenario")
        /\ pre[t].file # None
        /\ Base(t).dataset = None
        /\ ret[t] = "False"
        /\ Snap(t) = FileSnapshot("d1")

\* C25: when the ProjectSettings call of an entity tool (add_constraint,
\* remove_constraint, add_scenario, remove_scenario) ends on a duplicate name
\* (ValueError) or a missing name (False), the tool returns a message string:
\* no exception goes on to the caller.
C25_NoExceptionEscapes ==
    \A t \in Threads :
        (/\ pc[t] = "release" /\ call[t].tool \in EntityTools
         /\ ret[t] \in {"ValueError", "False"}) =>
            ToolOutcome(call[t].tool, ret[t]).kind = "returned"

\* the last tool call found no settings bound
UnboundCall == out.acc # "" /\ out.inst = ""

\* C27: a step in which a tool called with no settings bound returns leaves
\* every file, every in-memory snapshot, the lock and every thread as they
\* were, and what the tool returns is a message string, nothing raised: "{}"
\* from read_problem_specification and the not-initialized error message from
\* each of the seven mutating tools.
C27_NotInitialized ==
    [][(out' # out /\ UnboundCall') =>
          /\ fs' = fs /\ mem' = mem /\ lock' = lock /\ pc' = pc /\ call' = call
          /\ out'.acc \in MutatingTools \cup {"read_problem_specification"}
          /\ out'.val[1].kind = "returned"
          /\ out'.val[1].text = IF out'.acc = "read_problem_specification" THEN "{}"
                                ELSE "Error: Project settings not initialized."]_vars

\* update_request_schema found no settings bound and returned the error
\* message, while an instance exists whose file holds a schema definition and
\* a thread is inside an operation
C27_Witness ==
    /\ UnboundCall
    /\ out.acc = "update_request_schema"
    /\ out.val = <<Message("Error: Project settings not initialized.")>>
    /\ FileExists("d1") /\ FileSchema("d1") # None
    /\ lock # 0

\* read_problem_specification found no settings bound and returned "{}"
C27_WitnessRead ==
    /\ UnboundCall
    /\ out.acc = "read_problem_specification"
    /\ out.val = <<Message("{}")>>

\* the two runs differ in at least one of the three key fields
Differ(a, b) ==
    \/ a.solver_script_name # b.solver_script_name
    \/ a.input_file # b.input_file
    \/ a.output_file # b.output_file

\* C26: no two stored runs are equal in script name, input file and output
\* file; an add of a run that differs from every stored run in at least one
\* of the three succeeds and appends it, and an add of a run equal to a stored
\* run in all three fails as a duplicate and leaves the stored runs unchanged.
C26_RunsCompositeKey ==
    /\ [](\A j, k \in 1..Len(runs) : j # k => Differ(runs[j], runs[k]))
    /\ [][out' # out =>
            LET r == out'.val[1].run
            IN  IF \A k \in 1..Len(runs) : Differ(runs[k], r)
                THEN out'.val[1].kind = "returned" /\ runs' = Append(runs, r)
                ELSE /\ out'.val[1] = [kind |-> "raised", text |-> "DuplicateEntity",
                                       run |-> r]
                     /\ runs' = runs]_vars

\* (s1, a.json, b.json) and (s1, a.json, c.json) are both stored and the
\* re-add of the first was refused
C26_Witness ==
    /\ runs = <<RunSolverScript("s1", "a.json", "b.json"),
                RunSolverScript("s1", "a.json", "c.json")>>
    /\ out.val = <<[kind |-> "raised", text |-> "DuplicateEntity",
                    run |-> RunSolverScript("s1", "a.json", "b.json")]>>

\* C28: persist_settings runs holding the lock and never reloads: from taking
\* the lock on, the instance's snapshot is the one it had, and when the call
\* returns (None) the file holds the serialization of that snapshot, whatever
\* the file held before.
C28_PersistWithoutReload ==
    \A t \in Threads :
        call[t].op = "persist_settings" =>
            /\ lock = t
            /\ pc[t] \in {"mkstemp", "write", "replace", "release"}
            /\ mem[call[t].inst] = pre[t].mem
            /\ pc[t] = "release" =>
                  /\ ret[t] = "None"
                  /\ fs[SettingsFile(call[t].inst)] = Some(ModelDumpJson(pre[t].mem[1]))

\* a persist_settings is returning that replaced a file which held a
\* snapshot other than the instance's
C28_Witness ==
    \E t \in Threads :
        /\ Finishing(t, "persist_settings")
        /\ pre[t].file # None
        /\ ModelValidateJson(pre[t].file[1]) # pre[t].mem[1]
        /\ FileSnapshot("d1") = Snap(t)

IsConstraintEntry(e) == "type" \in DOMAIN e

IsScenarioEntry(e) == "request" \in DOMAIN e

\* the list an add of t appends to, as stored when it took the lock, and as
\* it is in the file now
ListBefore(t) ==
    IF call[t].op = "add_constraint" THEN Base(t).constraints ELSE DatasetOf(Base(t))

ListNow(t) ==
    IF call[t].op = "add_constraint" THEN FileConstraints(Directory(call[t].inst))
    ELSE FileDataset(Directory(call[t].inst))

\* C29: when an add_constraint or add_scenario returns normally the file's
\* list is the stored list with the new entry after its last entry, every
\* stored entry at its position; and whenever no add is in progress the
\* constraints and the scenarios in the file are, in this order, the entries
\* of the adds in the order in which the adds took the lock.
C29_AppendOrderIsCommitOrder ==
    /\ \A t \in Threads :
          (IsAdd(t) /\ ret[t] = "None") =>
              /\ Len(ListNow(t)) = Len(ListBefore(t)) + 1
              /\ \A k \in 1..Len(ListBefore(t)) : ListNow(t)[k] = ListBefore(t)[k]
              /\ ListNow(t)[Len(ListNow(t))] = EntryOf(call[t])
    /\ lock = 0 =>
          /\ FileConstraints("d1") = SelectSeq(abs, IsConstraintEntry)
          /\ FileDataset("d1") = SelectSeq(abs, IsScenarioEntry)

\* every loop is done, the threads' adds interleaved, and the file holds two
\* constraints of different threads, the first from thread 2
C29_Witness ==
    /\ AllLoopsDone
    /\ Len(FileConstraints("d1")) = 2
    /\ FileConstraints("d1")[1].name = LoopName(2, 0)
    /\ FileConstraints("d1")[2].name = LoopName(1, 1)
    /\ abs[1] = LoopScenario(1, 0)

\* the list a remove of t filters, as stored when it took the lock, the name
\* it removes as that list holds names, and the list in the file now
RemoveFrom(t) ==
    IF call[t].op = "remove_constraint" THEN Base(t).constraints ELSE DatasetOf(Base(t))

RemoveKey(t) ==
    IF call[t].op = "remove_constraint" THEN call[t].name ELSE Some(call[t].name)

RemoveNow(t) ==
    IF call[t].op = "remove_constraint" THEN FileConstraints(Directory(call[t].inst))
    ELSE FileDataset(Directory(call[t].inst))

\* C30: a remove_constraint or remove_scenario returns True exactly when a
\* stored entry has the given name; when it returns True the file has been
\* written and its list is the stored list without every entry of that name,
\* the others in their order; when it returns False nothing was written.
C30_RemoveEveryMatch ==
    \A t \in Threads :
        IsRemove(t) =>
            LET Other(e) == e.name # RemoveKey(t)
                some == \E k \in 1..Len(RemoveFrom(t)) : ~Other(RemoveFrom(t)[k])
            IN  /\ ret[t] = IF some THEN "True" ELSE "False"
                /\ some =>
                      /\ FileExists(Directory(call[t].inst))
                      /\ RemoveNow(t) = SelectSeq(RemoveFrom(t), Other)
                      /\ Snap(t) = FileSnapshot(Directory(call[t].inst))
                /\ ~some =>
                      /\ fs[SettingsFile(call[t].inst)] = pre[t].file
                      /\ fs[TmpPath(call[t].inst, t)] = None

\* remove_constraint("c2") is returning True on a file that held c2, c1, c2:
\* the file now holds c1 alone
C30_Witness ==
    \E t \in Threads :
        /\ Finishing(t, "remove_constraint")
        /\ call[t].name = "c2"
        /\ pre[t].file # None
        /\ Len(Base(t).constraints) = 3
        /\ ret[t] = "True"
        /\ SeqNames(FileConstraints("d1")) = {"c1"}
        /\ Len(FileConstraints("d1")) = 1

\* the operation of t makes its rename in this step and returns normally
Commits(t) ==
    /\ pc[t] = "replace" /\ pc'[t] = "release"
    /\ ret'[t] = Returns(call[t].op)
    /\ fs'[SettingsFile(call[t].inst)] = Some(ModelDumpJson(Snap(t)))

\* C31: a step that constructs a ProjectSettings, with or without a supplied
\* snapshot, changes no file, so on a directory with no optigen.json it
\* creates none; and a step in which optigen.json comes to exist is the
\* successful rename of a mutating operation or of persist_settings.
C31_OpenNeverWrites ==
    [][/\ \A i \in {"A", "B"} : Constructed(i) => fs' = fs
       /\ (~FileExists("d1") /\ FileExists("d1")') => \E t \in Threads : Commits(t)]_vars

\* both instances are constructed, A with Snapshot0 supplied and B with
\* none, no operation has been started, and there is no file
C31_Witness ==
    /\ mem["A"] = Some(Snapshot0)
    /\ mem["B"] = Some(DefaultSnapshot)
    /\ nops = 0
    /\ ~FileExists("d1")

SnapshotFields ==
    {"title", "description", "constraints", "schema_definition", "dataset"}

\* the snapshot the mutation of call c makes of the snapshot s, for a call that
\* gets as far as writing
Applied(c, s) ==
    LET OtherConstraint(x) == x.name # c.name
        OtherScenario(x) == x.name # Some(c.name)
        cs == s.constraints
    IN  CASE c.op = "update" ->
                [f \in DOMAIN s |->
                    IF f \in UpdatableFields /\ c.ukw[f] # None THEN c.ukw[f][1] ELSE s[f]]
          [] c.op = "add_constraint" ->
                [s EXCEPT !.constraints = cs \o <<c.cons>>]
          [] c.op = "add_scenario" ->
                [s EXCEPT !.dataset = Some(DatasetOf(s) \o <<c.scen>>)]
          [] c.op = "update_constraint" ->
                [s EXCEPT !.constraints =
                    [j \in 1..Len(cs) |->
                        IF j = FirstIndex(cs, c.name)
                        THEN [f \in DOMAIN cs[j] |->
                                 IF c.ckw[f] # None THEN c.ckw[f][1] ELSE cs[j][f]]
                        ELSE cs[j]]]
          [] c.op = "remove_constraint" ->
                [s EXCEPT !.constraints = SelectSeq(cs, OtherConstraint)]
          [] c.op = "remove_scenario" ->
                [s EXCEPT !.dataset = Some(SelectSeq(DatasetOf(s), OtherScenario))]

\* t is finishing a successful update or add through an instance whose
\* snapshot, when t took the lock, was the supplied Snapshot0
FromSupplied(t) ==
    /\ pc[t] = "release" /\ ret[t] = "None"
    /\ call[t].op \in {"update", "add_constraint", "add_scenario"}
    /\ pre[t].mem = Some(Snapshot0)

\* C32: a transaction through an instance that still holds its supplied
\* snapshot Snapshot0 writes, when the file existed as it took the lock, the
\* mutation applied to the file's snapshot, so that no field in which the
\* file differed from Snapshot0 has Snapshot0's value afterwards; when no
\* file existed it writes the mutation applied to Snapshot0.
C32_SuppliedSnapshotDiscarded ==
    \A t \in Threads :
        FromSupplied(t) =>
            /\ FileExists("d1")
            /\ pre[t].file # None =>
                  /\ FileSnapshot("d1") = Applied(call[t], ModelValidateJson(pre[t].file[1]))
                  /\ \A f \in SnapshotFields :
                        ModelValidateJson(pre[t].file[1])[f] # Snapshot0[f] =>
                            FileSnapshot("d1")[f] # Snapshot0[f]
            /\ pre[t].file = None =>
                  FileSnapshot("d1") = Applied(call[t], Snapshot0)

\* an update of the title through A, which held Snapshot0, is finishing on a
\* file created through B: the file shares no field with Snapshot0
C32_Witness ==
    \E t \in Threads :
        /\ FromSupplied(t) /\ call[t].op = "update" /\ call[t].inst = "A"
        /\ pre[t].file # None
        /\ \A f \in SnapshotFields : ModelValidateJson(pre[t].file[1])[f] # Snapshot0[f]
        /\ \A f \in SnapshotFields : FileSnapshot("d1")[f] # Snapshot0[f]

\* an add_constraint through A, which held Snapshot0, is finishing where no
\* file existed: the file holds Snapshot0 with the constraint appended
C32_WitnessNoFile ==
    \E t \in Threads :
        /\ FromSupplied(t) /\ call[t].op = "add_constraint"
        /\ pre[t].file = None
        /\ FileSnapshot("d1").title = Snapshot0.title
        /\ Len(FileConstraints("d1")) = 2

\* the write step of the transaction of t failed: it is about to leave the
\* lock with the OSError
FailedWrite(t) == pc[t] = "release" /\ ret[t] = "OSError" /\ Reloading(t)

\* C33: when the write step of a transaction fails, the settings file is as
\* it was when the lock was taken while the instance's snapshot is the
\* mutation applied to what the transaction started from, and the property
\* accessors return that snapshot's fields; and a transaction that finds the
\* file existing mutates the file's snapshot, whatever the instance held.
C33_MemoryAheadAfterFailedWrite ==
    \A t \in Threads :
        LET i == call[t].inst
            kept == Applied(call[t], Base(t))
        IN  /\ FailedWrite(t) =>
                  /\ fs[SettingsFile(i)] = pre[t].file
                  /\ mem[i] = Some(kept)
                  /\ \A acc \in Properties : Returned(acc, i, "") = kept[acc]
            /\ (Reloading(t) /\ pc[t] = "mutate" /\ pre[t].file # None) =>
                  mem[i] = Some(ModelValidateJson(pre[t].file[1]))

\* the write of an add_constraint failed on an existing file: the constraint
\* is in the list the accessor returns and not in the file
C33_Witness ==
    \E t \in Threads :
        /\ FailedWrite(t) /\ call[t].op = "add_constraint"
        /\ pre[t].file # None
        /\ AnyName(Returned("constraints", call[t].inst, ""), call[t].cons.name)
        /\ ~AnyName(FileConstraints("d1"), call[t].cons.name)

\* a transaction has reloaded on an instance whose snapshot was not the
\* file's: it is about to mutate the file's snapshot
C33_WitnessDropped ==
    \E t \in Threads :
        /\ Reloading(t) /\ pc[t] = "mutate"
        /\ pre[t].file # None
        /\ pre[t].mem # Some(ModelValidateJson(pre[t].file[1]))
        /\ mem[call[t].inst] = Some(ModelValidateJson(pre[t].file[1]))

\* a transaction has reloaded where no file exists, on an instance whose
\* snapshot a failed write left changed: the change is kept
C33_WitnessKept ==
    \E t \in Threads :
        /\ Reloading(t) /\ pc[t] = "mutate"
        /\ pre[t].file = None
        /\ pre[t].mem \notin {Some(Snapshot0), Some(DefaultSnapshot)}
        /\ mem[call[t].inst] = pre[t].mem

====
